---- MODULE Spec2Model ----
(***************************************************************************)
(* Model of cmu_cv/panorama/src/keypointDetect.py: the DoG keypoint        *)
(* detector (createGaussianPyramid, createDoGPyramid,                      *)
(* computePrincipalCurvature, getLocalExtrema, DoGdetector).               *)
(*                                                                         *)
(* Arrays are records [shape |-> <<imH, imW, n>>, at |-> f] with f a       *)
(* function on 0-based index triples <<row, col, level>>, as numpy indexes *)
(* them.  Pixel values are exact integers: the model abstracts floating    *)
(* point by exact arithmetic.  A keypoint list (an N x 3 array) is a       *)
(* sequence of rows <<x, y, level>>.                                       *)
(***************************************************************************)
EXTENDS Integers, Sequences, FiniteSets, TLC

VARIABLES pc, im, levels, th_contrast, th_r, gauss_pyramid, DoG_pyramid,
          DoG_levels, principal_curvature, locsDoG, error

vars == <<pc, im, levels, th_contrast, th_r, gauss_pyramid, DoG_pyramid,
          DoG_levels, principal_curvature, locsDoG, error>>

\* ------------------------------------------------------------ bounds
\* Longest levels sequence handed to the detector (the default has 6).
MaxLevels == 5
\* Largest pixel value and largest contrast threshold tried.
MaxVal == 2

\* Image shapes <<imH, imW>> tried: the smallest with an interior pixel, and
\* two with an interior row or column of two pixels.
Shapes == {<<3, 3>>, <<3, 4>>, <<4, 3>>}
\* First entries of the levels sequences tried (the default starts at -1;
\* five levels from 1 reach level 5).
FirstLevels == {-1, 0, 1}
\* th_r=12, the detector's default.
Default_th_r == 12
\* Value of a variable the function under way has not produced yet.
None == [shape |-> <<>>]
\* Value of error while nothing has been raised.
NoError == "none"

\* ------------------------------------------------------------ helpers
Abs(v) == IF v < 0 THEN -v ELSE v

\* The function f itself.  The comparison makes TLC tabulate f once instead
\* of re-evaluating its body at every application.
Tabulated(f) == IF f = f THEN f ELSE f

SetMax(S) == CHOOSE m \in S : \A v \in S : v <= m

SetMin(S) == CHOOSE m \in S : \A v \in S : m <= v

Pixels(imH, imW) == (0..(imH - 1)) \X (0..(imW - 1))

Index(imH, imW, n) == (0..(imH - 1)) \X (0..(imW - 1)) \X (0..(n - 1))

\* range(len(levels)-1) and friends: the sequence 0, 1, ..., n-1.
Range(n) == [i \in 1..n |-> i - 1]

\* The arrays the model lets the blur produce / the callers hand in: all
\* zero, except that one level carries one or two raised pixels.
RaisedPixels(imH, imW) ==
  UNION {[P -> 1..MaxVal] :
           P \in {Q \in SUBSET Pixels(imH, imW) : Cardinality(Q) <= 2}}

SpikePyramid(imH, imW, n, k, S) ==
  [shape |-> <<imH, imW, n>>,
   at |-> [idx \in Index(imH, imW, n) |->
             IF idx[3] = k /\ <<idx[1], idx[2]>> \in DOMAIN S
             THEN S[<<idx[1], idx[2]>>] ELSE 0]]

GaussianPyramids(imH, imW, n) ==
  {SpikePyramid(imH, imW, n, k, S) :
     k \in 0..(n - 1), S \in RaisedPixels(imH, imW)}

LevelsFrom(first, n) == [i \in 1..n |-> first + i - 1]

\* ------------------------------------------------------------ createDoGPyramid
\* Mutant of LevelDifference: the two levels subtracted the other way round.
LevelDifference_reversed(gaussian_pyramid, i) ==
  [p \in Pixels(gaussian_pyramid.shape[1], gaussian_pyramid.shape[2]) |->
     gaussian_pyramid.at[<<p[1], p[2], i>>]
       - gaussian_pyramid.at[<<p[1], p[2], i + 1>>]]

\* gaussian_pyramid[:, :, i+1] - gaussian_pyramid[:, :, i]  (line 58)
LevelDifference(gaussian_pyramid, i) ==
  [p \in Pixels(gaussian_pyramid.shape[1], gaussian_pyramid.shape[2]) |->
     gaussian_pyramid.at[<<p[1], p[2], i + 1>>]
       - gaussian_pyramid.at[<<p[1], p[2], i>>]]

\* np.stack(arrays, axis=-1) of a non-empty 0-based list of imH x imW arrays.
Stack(arrays, imH, imW, n) ==
  [shape |-> <<imH, imW, n>>,
   at |-> [idx \in Index(imH, imW, n) |-> arrays[idx[3]][<<idx[1], idx[2]>>]]]

\* DoG_levels = range(len(levels)-1)  (line 53)
DoGLevelList(lvls) == Range(Len(lvls) - 1)

\* The whole function: what it raises (NoError when it returns) and the pair it
\* returns.  Indexing level i+1 past the pyramid's depth is an IndexError;
\* np.stack of an empty list is a ValueError.
createDoGPyramid(gaussian_pyramid, lvls) ==
  LET n == Len(lvls) - 1
      imH == gaussian_pyramid.shape[1]
      imW == gaussian_pyramid.shape[2]
  IN  IF n >= 1 /\ n + 1 > gaussian_pyramid.shape[3]
      THEN [error |-> "IndexError", DoG_pyramid |-> None, DoG_levels |-> None]
      ELSE IF n < 1
      THEN [error |-> "ValueError", DoG_pyramid |-> None, DoG_levels |-> None]
      ELSE [error |-> NoError,
            DoG_pyramid |->
              Stack([i \in 0..(n - 1) |-> LevelDifference(gaussian_pyramid, i)],
                    imH, imW, n),
            DoG_levels |-> DoGLevelList(lvls)]

\* ------------------------------------------------------------ getLocalExtrema
\* scipy.ndimage's default boundary mode 'reflect' (d c b a | a b c d | d c b a)
\* for an index one step outside an axis of length n.
Reflect(j, n) == IF j < 0 THEN -j - 1 ELSE IF j >= n THEN 2 * n - 1 - j ELSE j

\* The indices a size-3 filter reads around index i on an axis of length n.
Window3(i, n) == {Reflect(i - 1, n), i, Reflect(i + 1, n)}

\* DoG_pyramid[1:imH-1, 1:imW-1, l]  (lines 115, 121, 122)
Region(DoG, l) ==
  [shape |-> <<DoG.shape[1] - 2, DoG.shape[2] - 2>>,
   at |-> [p \in Pixels(DoG.shape[1] - 2, DoG.shape[2] - 2) |->
             DoG.at[<<p[1] + 1, p[2] + 1, l>>]]]

\* maximum_filter(A, size=3) and minimum_filter(A, size=3) on a 2-D array.
maximum_filter(A) ==
  [shape |-> A.shape,
   at |-> [p \in Pixels(A.shape[1], A.shape[2]) |->
             SetMax({A.at[<<r, c>>] : r \in Window3(p[1], A.shape[1]),
                                      c \in Window3(p[2], A.shape[2])})]]

minimum_filter(A) ==
  [shape |-> A.shape,
   at |-> [p \in Pixels(A.shape[1], A.shape[2]) |->
             SetMin({A.at[<<r, c>>] : r \in Window3(p[1], A.shape[1]),
                                      c \in Window3(p[2], A.shape[2])})]]

\* np.max(scale, axis=0) and np.min(scale, axis=0) of the two stacked regions.
ElementMax(A, B) ==
  [shape |-> A.shape,
   at |-> [p \in DOMAIN A.at |-> IF A.at[p] >= B.at[p] THEN A.at[p] ELSE B.at[p]]]

ElementMin(A, B) ==
  [shape |-> A.shape,
   at |-> [p \in DOMAIN A.at |-> IF A.at[p] <= B.at[p] THEN A.at[p] ELSE B.at[p]]]

\* Mutant of ContrastOk: the comparison turned round.
ContrastOk_flipped(v, th) == Abs(v) <= th

\* np.abs(region) >= th_contrast  (line 129)
ContrastOk(v, th) == Abs(v) >= th

\* |R| <= t for a curvature ratio R as computePrincipalCurvature keeps it and
\* an integer t below 10**10.
RatioWithin(R, t) ==
  IF R.tiny THEN t >= 0 /\ R.num = 0 ELSE R.num <= t * Abs(R.den)

\* Mutant of is_extrema: line 130 active, so that pixels whose curvature
\* ratio exceeds th_r are dropped.
is_extrema_curvature(DoG, R, l, thc, thr) ==
  LET region == Region(DoG, l)
      space_max == maximum_filter(region)
      space_min == minimum_filter(region)
      below == Region(DoG, l - 1)
      above == Region(DoG, l + 1)
      scale_max == maximum_filter(ElementMax(below, above))
      scale_min == minimum_filter(ElementMin(below, above))
  IN  [p \in DOMAIN region.at |->
         /\ \/ region.at[p] >= SetMax({space_max.at[p], scale_max.at[p]})
            \/ region.at[p] <= SetMin({space_min.at[p], scale_min.at[p]})
         /\ ContrastOk(region.at[p], thc)
         /\ RatioWithin(R.at[<<p[1] + 1, p[2] + 1, l>>], thr)]

\* is_extrema of lines 127-129, as a mask over the region's pixels.  Line 130,
\* the test of principal_curvature against th_r, is commented out in the
\* source: R and thr are not read.
is_extrema(DoG, R, l, thc, thr) ==
  LET region == Region(DoG, l)
      space_max == maximum_filter(region)
      space_min == minimum_filter(region)
      below == Region(DoG, l - 1)
      above == Region(DoG, l + 1)
      scale_max == maximum_filter(ElementMax(below, above))
      scale_min == minimum_filter(ElementMin(below, above))
  IN  [p \in DOMAIN region.at |->
         /\ \/ region.at[p] >= SetMax({space_max.at[p], scale_max.at[p]})
            \/ region.at[p] <= SetMin({space_min.at[p], scale_min.at[p]})
         /\ ContrastOk(region.at[p], thc)]

\* np.asarray(np.where(mask == True)).T: the <<row, col>> of the mask's true
\* entries in row-major order.
Where(mask, h, w) ==
  SelectSeq([k \in 1..(h * w) |-> <<(k - 1) \div w, (k - 1) % w>>],
            LAMBDA p : mask[p])

\* Mutant of BackToFrame: the +1 forgotten.
BackToFrame_nooffset(coords) == coords

\* (... + 1): back to the original frame  (line 132)
BackToFrame(coords) ==
  [i \in DOMAIN coords |-> <<coords[i][1] + 1, coords[i][2] + 1>>]

\* Mutant of SwapColumns: the columns left as <<row, col>>.
SwapColumns_none(coords) == coords

\* coordinates[:, [1,0]] = coordinates[:, [0,1]]  (line 134)
SwapColumns(coords) ==
  [i \in DOMAIN coords |-> <<coords[i][2], coords[i][1]>>]

\* Mutant of HStackLevel: level = np.ones(...) without the factor l.
HStackLevel_ones(coords, l) ==
  [i \in DOMAIN coords |-> <<coords[i][1], coords[i][2], 1>>]

\* np.hstack((coordinates, level)) with level = l in every row (lines 135-136)
HStackLevel(coords, l) ==
  [i \in DOMAIN coords |-> <<coords[i][1], coords[i][2], l>>]

\* One pass of the loop body: the rows appended to res for level l.
LevelRows(DoG, R, l, thc, thr) ==
  HStackLevel(
    SwapColumns(
      BackToFrame(
        Where(is_extrema(DoG, R, l, thc, thr),
              DoG.shape[1] - 2, DoG.shape[2] - 2))), l)

\* range(1, levels-1)  (line 113), as a sequence
InteriorLevels(n) == [i \in 1..(n - 2) |-> i]

RECURSIVE Concatenate(_)
\* np.concatenate of a non-empty list of N_i x 3 arrays.
Concatenate(res) ==
  IF Len(res) = 0 THEN <<>> ELSE Head(res) \o Concatenate(Tail(res))

\* The whole function: np.concatenate raises ValueError on an empty list.
getLocalExtrema(DoG, DoGlevels, R, thc, thr) ==
  LET ls == InteriorLevels(DoG.shape[3])
      res == [i \in DOMAIN ls |-> LevelRows(DoG, R, ls[i], thc, thr)]
  IN  IF Len(res) = 0
      THEN [error |-> "ValueError", locsDoG |-> None]
      ELSE [error |-> NoError, locsDoG |-> Concatenate(res)]

\* ------------------------------------------------------------ computePrincipalCurvature
\* OpenCV's default border BORDER_REFLECT_101 (g f e | a b c | c b a is
\* BORDER_REFLECT; 101 does not repeat the edge pixel) one step outside.
Reflect101(j, n) == IF j < 0 THEN -j ELSE IF j >= n THEN 2 * n - 2 - j ELSE j

\* The 3-tap Sobel kernels: derivative (-1 0 1) and smoothing (1 2 1).
SobelTap(order, i) ==
  IF order = 1 THEN i ELSE IF i = 0 THEN 2 ELSE 1

\* cv2.Sobel(img, -1, dx, dy) with the default 3x3 kernel, on a 2-D array
\* given as a function on Pixels(imH, imW).
Sobel(img, imH, imW, dx, dy) ==
  LET Tap(p, i, j) ==
        SobelTap(dy, i) * SobelTap(dx, j)
          * img[<<Reflect101(p[1] + i, imH), Reflect101(p[2] + j, imW)>>]
      RowSum(p, i) == Tap(p, i, -1) + Tap(p, i, 0) + Tap(p, i, 1)
  IN  Tabulated([p \in Pixels(imH, imW) |->
                   RowSum(p, -1) + RowSum(p, 0) + RowSum(p, 1)])

\* (dxx + dyy)**2 / det with det == 0 replaced by 10**(-10)  (lines 87-90).
\* The ratio is kept as numerator and denominator; tiny marks the replaced
\* denominator 10**(-10).
CurvatureRatio(dxx, dxy, dyy) ==
  LET det == dxx * dyy - dxy * dxy
  IN  [num |-> (dxx + dyy) * (dxx + dyy),
       den |-> IF det = 0 THEN 1 ELSE det,
       tiny |-> det = 0]

computePrincipalCurvature(DoG) ==
  LET imH == DoG.shape[1]
      imW == DoG.shape[2]
      Level(l) ==
        LET img == Tabulated([p \in Pixels(imH, imW) |-> DoG.at[<<p[1], p[2], l>>]])
            dx == Sobel(img, imH, imW, 1, 0)
            dy == Sobel(img, imH, imW, 0, 1)
            dxx == Sobel(dx, imH, imW, 1, 0)
            dxy == Sobel(dx, imH, imW, 0, 1)
            dyy == Sobel(dy, imH, imW, 0, 1)
        IN  [p \in Pixels(imH, imW) |-> CurvatureRatio(dxx[p], dxy[p], dyy[p])]
      maps == Tabulated([l \in 0..(DoG.shape[3] - 1) |-> Level(l)])
  IN  [shape |-> DoG.shape,
       at |-> [idx \in Index(imH, imW, DoG.shape[3]) |->
                 maps[idx[3]][<<idx[1], idx[2]>>]]]

\* ------------------------------------------------------------ createGaussianPyramid
\* sigma0 = 1 and k = sqrt(2), the defaults (lines 5-6), so sigma_ = sqrt(2)**i
\* and 3*sigma_*2 = sqrt(36 * 2**i).
RECURSIVE Pow2(_)
Pow2(e) == IF e <= 0 THEN 1 ELSE 2 * Pow2(e - 1)

\* floor(sqrt(x)) for an integer x >= 0 with sqrt(x) <= top.
FloorSqrt(x, top) == CHOOSE r \in 0..top : r * r <= x /\ x < (r + 1) * (r + 1)

\* size = int(np.floor(3*sigma_*2) + 1)  (line 26), for a level i >= -1.
KernelSize(i) ==
  LET x == IF i >= 0 THEN 36 * Pow2(i) ELSE 36 \div Pow2(-i)
  IN  FloorSqrt(x, 6 * Pow2((i + 1) \div 2) + 6) + 1

\* cv2.GaussianBlur accepts a kernel size only if it is positive and odd.
KernelSizeAccepted(size) == size > 0 /\ size % 2 = 1

ImageValues(image) == {image.at[p] : p \in DOMAIN image.at}

\* One blurred level.  cv2.GaussianBlur is library code: a normalised
\* non-negative kernel keeps every pixel within the image's range, maps a
\* constant image to itself, and flattens peaks the more the larger sigma_
\* is.  The model lets a level be the image with its pixels capped at a
\* value a of that range, the cap not rising from one level to the next.
BlurredLevel(image, a) ==
  [p \in DOMAIN image.at |-> IF image.at[p] <= a THEN image.at[p] ELSE a]

\* The stacked pyramids lines 23-30 can produce for n levels.
BlurOutcomes(image, n) ==
  LET lo == SetMin(ImageValues(image))
      hi == SetMax(ImageValues(image))
  IN  {Stack([i \in 0..(n - 1) |-> BlurredLevel(image, a[i])],
             image.shape[1], image.shape[2], n) :
         a \in {b \in [0..(n - 1) -> lo..hi] :
                  \A i \in 1..(n - 1) : b[i] <= b[i - 1]}}

\* ------------------------------------------------------------ inputs
\* Grayscale images with values in the documented range (no colour
\* conversion, no division by 255): constant images, and images with one
\* raised pixel.
FlatImage(imH, imW, c) ==
  [shape |-> <<imH, imW>>, at |-> [p \in Pixels(imH, imW) |-> c]]

SpikeImage(imH, imW, q, v) ==
  [shape |-> <<imH, imW>>,
   at |-> [p \in Pixels(imH, imW) |-> IF p = q THEN v ELSE 0]]

Images ==
  UNION {{FlatImage(sh[1], sh[2], c) : c \in 0..MaxVal}
           \cup {SpikeImage(sh[1], sh[2], q, v) :
                   q \in Pixels(sh[1], sh[2]), v \in 1..MaxVal} :
         sh \in Shapes}

LevelLists == {LevelsFrom(first, n) : first \in FirstLevels, n \in 0..MaxLevels}

IsFlat(image) == Cardinality(ImageValues(image)) = 1

\* ------------------------------------------------------------ DoGdetector
\* DoGdetector(im, levels=levels, th_contrast=th_contrast, th_r=th_r) is
\* entered: line 160 is about to run.
Init ==
  /\ pc = "createGaussianPyramid"
  /\ im \in Images
  /\ levels \in LevelLists
  /\ th_contrast \in 0..MaxVal
  /\ th_r = Default_th_r
  /\ gauss_pyramid = None
  /\ DoG_pyramid = None
  /\ DoG_levels = None
  /\ principal_curvature = None
  /\ locsDoG = None
  /\ error = NoError

\* Line 160.  The loop raises at the first level whose kernel size OpenCV
\* rejects; np.stack raises on an empty levels list.
CreateGaussianPyramid ==
  /\ pc = "createGaussianPyramid"
  /\ \/ /\ \E i \in DOMAIN levels : ~KernelSizeAccepted(KernelSize(levels[i]))
        /\ pc' = "raise"
        /\ error' = "cv2.error"
        /\ UNCHANGED gauss_pyramid
     \/ /\ \A i \in DOMAIN levels : KernelSizeAccepted(KernelSize(levels[i]))
        /\ Len(levels) = 0
        /\ pc' = "raise"
        /\ error' = "ValueError"
        /\ UNCHANGED gauss_pyramid
     \/ /\ \A i \in DOMAIN levels : KernelSizeAccepted(KernelSize(levels[i]))
        /\ Len(levels) > 0
        /\ gauss_pyramid' \in BlurOutcomes(im, Len(levels))
        /\ pc' = "createDoGPyramid"
        /\ UNCHANGED error
  /\ UNCHANGED <<im, levels, th_contrast, th_r, DoG_pyramid, DoG_levels,
                 principal_curvature, locsDoG>>

\* Line 161.
CreateDoGPyramid ==
  /\ pc = "createDoGPyramid"
  /\ LET out == createDoGPyramid(gauss_pyramid, levels)
     IN  \/ /\ out.error # NoError
            /\ pc' = "raise"
            /\ error' = out.error
            /\ UNCHANGED <<DoG_pyramid, DoG_levels>>
         \/ /\ out.error = NoError
            /\ DoG_pyramid' = out.DoG_pyramid
            /\ DoG_levels' = out.DoG_levels
            /\ pc' = "computePrincipalCurvature"
            /\ UNCHANGED error
  /\ UNCHANGED <<im, levels, th_contrast, th_r, gauss_pyramid,
                 principal_curvature, locsDoG>>

\* Line 162.
ComputePrincipalCurvature ==
  /\ pc = "computePrincipalCurvature"
  /\ principal_curvature' = computePrincipalCurvature(DoG_pyramid)
  /\ pc' = "getLocalExtrema"
  /\ UNCHANGED <<im, levels, th_contrast, th_r, gauss_pyramid, DoG_pyramid,
                 DoG_levels, locsDoG, error>>

\* Lines 163-166.
GetLocalExtrema ==
  /\ pc = "getLocalExtrema"
  /\ LET out == getLocalExtrema(DoG_pyramid, DoG_levels, principal_curvature,
                                th_contrast, th_r)
     IN  \/ /\ out.error # NoError
            /\ pc' = "raise"
            /\ error' = out.error
            /\ UNCHANGED locsDoG
         \/ /\ out.error = NoError
            /\ locsDoG' = out.locsDoG
            /\ pc' = "return"
            /\ UNCHANGED error
  /\ UNCHANGED <<im, levels, th_contrast, th_r, gauss_pyramid, DoG_pyramid,
                 DoG_levels, principal_curvature>>

Next ==
  \/ CreateGaussianPyramid
  \/ CreateDoGPyramid
  \/ ComputePrincipalCurvature
  \/ GetLocalExtrema

Spec == Init /\ [][Next]_vars

\* ------------------------------------------------------------ createDoGPyramid alone
\* createDoGPyramid called on any pyramid of the family with a levels list
\* as long as the pyramid is deep, one shorter or one longer.
InitDoG ==
  /\ pc = "createDoGPyramid"
  /\ \E sh \in Shapes, n \in 1..MaxLevels :
       /\ gauss_pyramid \in GaussianPyramids(sh[1], sh[2], n)
       /\ levels \in {lv \in LevelLists : Len(lv) \in (n - 1)..(n + 1)}
  /\ im = None
  /\ th_contrast = None
  /\ th_r = None
  /\ DoG_pyramid = None
  /\ DoG_levels = None
  /\ principal_curvature = None
  /\ locsDoG = None
  /\ error = NoError

SpecDoG == InitDoG /\ [][CreateDoGPyramid]_vars

\* ------------------------------------------------------------ getLocalExtrema alone
\* Curvature maps handed to getLocalExtrema: the same ratio num/1 at every
\* pixel, below or above th_r.
UniformCurvature(shape, num) ==
  [shape |-> shape,
   at |-> [idx \in Index(shape[1], shape[2], shape[3]) |->
             [num |-> num, den |-> 1, tiny |-> FALSE]]]

CurvatureMaps(shape) == {UniformCurvature(shape, num) : num \in {0, 100}}

\* getLocalExtrema called on the DoG pyramid of any pyramid of the family,
\* with a curvature map whose every ratio exceeds th_r, and any threshold
\* th_contrast in 0..MaxVal (the largest first).
InitExtrema ==
  /\ pc = "getLocalExtrema"
  /\ \E t \in 0..MaxVal : th_contrast = MaxVal - t
  /\ \E sh \in Shapes, n \in 2..MaxLevels :
       \E G \in GaussianPyramids(sh[1], sh[2], n) :
         /\ DoG_pyramid = createDoGPyramid(G, Range(n)).DoG_pyramid
         /\ DoG_levels = Range(n - 1)
  /\ principal_curvature = UniformCurvature(DoG_pyramid.shape, 100)
  /\ th_r = Default_th_r
  /\ im = None
  /\ levels = None
  /\ gauss_pyramid = None
  /\ locsDoG = None
  /\ error = NoError

SpecExtrema == InitExtrema /\ [][GetLocalExtrema]_vars

\* ------------------------------------------------------------ claims
Returned == pc = "return"

\* createDoGPyramid has returned (the detector is at line 162).
DoGReturned == pc = "computePrincipalCurvature"

\* The DoG value a keypoint row <<x, y, level>> points at: row y, column x.
ValueAt(kp) == DoG_pyramid.at[<<kp[2], kp[1], kp[3]>>]

\* C1: for a Gaussian pyramid of L = len(levels) >= 2 levels, createDoGPyramid
\* returns a stack of exactly L-1 images of the input's height and width, and
\* DoG[j] = Gaussian[j+1] - Gaussian[j] at every pixel, for every j in 0..L-2.
C1_DoGIsLevelDifference ==
  (/\ pc # "createDoGPyramid"
   /\ Len(levels) = gauss_pyramid.shape[3]
   /\ Len(levels) >= 2)
  => /\ DoGReturned
     /\ DoG_pyramid.shape = <<gauss_pyramid.shape[1], gauss_pyramid.shape[2],
                              Len(levels) - 1>>
     /\ DOMAIN DoG_pyramid.at
          = Index(gauss_pyramid.shape[1], gauss_pyramid.shape[2],
                  Len(levels) - 1)
     /\ \A idx \in DOMAIN DoG_pyramid.at :
          DoG_pyramid.at[idx]
            = gauss_pyramid.at[<<idx[1], idx[2], idx[3] + 1>>]
                - gauss_pyramid.at[idx]

\* C1 witness: a pyramid of at least three levels whose DoG has a positive and
\* a negative pixel.
C1_Witness ==
  /\ DoGReturned
  /\ Len(levels) = gauss_pyramid.shape[3]
  /\ Len(levels) >= 3
  /\ \E idx \in DOMAIN DoG_pyramid.at : DoG_pyramid.at[idx] > 0
  /\ \E idx \in DOMAIN DoG_pyramid.at : DoG_pyramid.at[idx] < 0

\* C7: the second value createDoGPyramid returns is levels[1:], the levels
\* sequence without its first element.  (Violated: it is range(len(levels)-1).)
C7_DoGLevelsIsTail ==
  DoGReturned => DoG_levels = Tail(levels)

\* C2: every keypoint <<x, y, level>> has 1 <= x <= imW-2, 1 <= y <= imH-2
\* and 1 <= level <= L-3, where the DoG pyramid has L-1 levels.
C2_KeypointsInterior ==
  Returned =>
    \A i \in DOMAIN locsDoG :
      /\ 1 <= locsDoG[i][1] /\ locsDoG[i][1] <= DoG_pyramid.shape[2] - 2
      /\ 1 <= locsDoG[i][2] /\ locsDoG[i][2] <= DoG_pyramid.shape[1] - 2
      /\ 1 <= locsDoG[i][3] /\ locsDoG[i][3] <= DoG_pyramid.shape[3] - 2

\* C2 witness: keypoints in the first and in the last interior column or row of
\* an image with two of them, and one at the last of two interior levels.
C2_Witness ==
  /\ Returned
  /\ \E i, j, k \in DOMAIN locsDoG :
       /\ \/ /\ locsDoG[i][1] = 1
             /\ locsDoG[j][1] = DoG_pyramid.shape[2] - 2
             /\ locsDoG[j][1] = 2
          \/ /\ locsDoG[i][2] = 1
             /\ locsDoG[j][2] = DoG_pyramid.shape[1] - 2
             /\ locsDoG[j][2] = 2
       /\ locsDoG[k][3] = DoG_pyramid.shape[3] - 2
       /\ locsDoG[k][3] = 2

\* C3: for every keypoint <<x, y, level>>, the DoG value at row y, column x of
\* that level has absolute value >= th_contrast.
C3_KeypointsHaveContrast ==
  Returned =>
    \A i \in DOMAIN locsDoG :
      /\ <<locsDoG[i][2], locsDoG[i][1], locsDoG[i][3]>> \in DOMAIN DoG_pyramid.at
      /\ Abs(ValueAt(locsDoG[i])) >= th_contrast

\* C3 witness: a positive threshold and a keypoint whose column differs from
\* its row, while the pixel it would name with the two exchanged is below the
\* threshold.
C3_Witness ==
  /\ Returned
  /\ th_contrast > 0
  /\ \E i \in DOMAIN locsDoG :
       /\ locsDoG[i][1] # locsDoG[i][2]
       /\ Abs(DoG_pyramid.at[<<locsDoG[i][1], locsDoG[i][2], locsDoG[i][3]>>])
            < th_contrast

\* The keypoint rows of a list, as a set.
Rows(list) == {list[i] : i \in DOMAIN list}

\* The list getLocalExtrema returns on the same pyramid with threshold t.
WithContrast(t) ==
  getLocalExtrema(DoG_pyramid, DoG_levels, principal_curvature, t, th_r).locsDoG

\* C6: on a fixed DoG pyramid, the keypoints returned with a threshold t2 are a
\* subset of those returned with any t1 <= t2, and no more numerous.
C6_ContrastMonotone ==
  Returned =>
    \A t \in (th_contrast + 1)..(MaxVal + 1) :
      /\ Rows(WithContrast(t)) \subseteq Rows(locsDoG)
      /\ Len(WithContrast(t)) <= Len(locsDoG)

\* C6 witness: a larger threshold keeps some keypoints and drops others.
C6_Witness ==
  /\ Returned
  /\ \E t \in (th_contrast + 1)..(MaxVal + 1) :
       /\ Len(WithContrast(t)) > 0
       /\ Len(WithContrast(t)) < Len(locsDoG)

\* The values of the full 3x3 windows centred on a keypoint in its level and
\* the two adjacent levels, border rows and columns of the image included.
FullWindow(kp) ==
  {DoG_pyramid.at[<<r, c, k>>] :
     r \in (kp[2] - 1)..(kp[2] + 1),
     c \in (kp[1] - 1)..(kp[1] + 1),
     k \in (kp[3] - 1)..(kp[3] + 1)}

\* C8: every keypoint is a joint 3x3x3 extremum in the full image frame: its
\* value is >= every value, or <= every value, of the full 3x3 windows centred
\* on it in levels l-1, l and l+1.  (Violated: the windows are clipped to the
\* interior region.)
C8_Joint3x3x3Extremum ==
  Returned =>
    \A i \in DOMAIN locsDoG :
      \/ \A u \in FullWindow(locsDoG[i]) : ValueAt(locsDoG[i]) >= u
      \/ \A u \in FullWindow(locsDoG[i]) : ValueAt(locsDoG[i]) <= u

\* C9 as stated: no pixel position <<x, y>> appears with two different levels.
\* (Violated.)
C9_OneLevelPerPixel ==
  Returned =>
    \A i, j \in DOMAIN locsDoG :
      (locsDoG[i][1] = locsDoG[j][1] /\ locsDoG[i][2] = locsDoG[j][2])
        => locsDoG[i][3] = locsDoG[j][3]

\* C9 as amended: no row <<x, y, level>> appears twice in the list; a pixel
\* position appears at most once per level.
C9_NoRowTwice ==
  Returned =>
    \A i, j \in DOMAIN locsDoG : locsDoG[i] = locsDoG[j] => i = j

\* C9 witness: one pixel position listed at two levels.
C9_Witness ==
  /\ Returned
  /\ \E i, j \in DOMAIN locsDoG :
       /\ locsDoG[i][1] = locsDoG[j][1]
       /\ locsDoG[i][2] = locsDoG[j][2]
       /\ locsDoG[i][3] # locsDoG[j][3]

\* Other values of th_r for the same call.
OtherThR == {0, Default_th_r}

Ended == pc \in {"return", "raise"}

\* C4: with fewer than four levels DoGdetector reports a parameter error, and
\* does so at entry: no Gaussian pyramid, DoG pyramid or curvature map has
\* been computed.  Any exception counts as the report.  (Violated: nothing is
\* validated; the run ends in a ValueError of np.stack or np.concatenate
\* after the stages before it have run.)
C4_TooFewLevelsRejectedAtEntry ==
  (Ended /\ Len(levels) < 4)
  => /\ pc = "raise"
     /\ error # NoError
     /\ gauss_pyramid = None
     /\ DoG_pyramid = None
     /\ principal_curvature = None

\* C5: for a constant image, at least four levels and th_contrast > 0, the
\* detector returns normally, with an empty keypoint list.  (Violated: a
\* levels sequence with an even kernel size makes cv2.GaussianBlur raise.)
C5_FlatImageEmptyResult ==
  (Ended /\ IsFlat(im) /\ Len(levels) >= 4 /\ th_contrast > 0)
  => /\ pc = "return"
     /\ locsDoG = <<>>

\* The part of C5 the code keeps: when OpenCV accepts every level's kernel
\* size, a constant image with at least four levels and th_contrast > 0 ends
\* in a normal return of the empty list (np.concatenate of empty arrays).
FlatImageEmptyWhenBlurAccepted ==
  (/\ Ended /\ IsFlat(im) /\ Len(levels) >= 4 /\ th_contrast > 0
   /\ \A i \in DOMAIN levels : KernelSizeAccepted(KernelSize(levels[i])))
  => /\ pc = "return"
     /\ locsDoG = <<>>

====
